---- MODULE Spec2Model ----
(***************************************************************************)
(* Model of mosfit/main.py: main() turns the parsed command line options   *)
(* into the arguments handed to the Fitter, runs the upload-token          *)
(* protocol and copies the user directory structure.                       *)
(***************************************************************************)
EXTENDS Integers, Sequences, FiniteSets, TLC

VARIABLES
    raw,                  \* the options as parse_args() returned them
    args,                 \* the argparse namespace main() mutates
    pc,                   \* position of the process inside main()
    isMaster,             \* result of is_master() for this process
    changed_iterations,   \* local of main()
    upload_token,         \* local of main(): a str or (after a bad read) a list
    get_token_from_user,  \* local of main()
    tokenFile,            \* content of cache/dropbox.token, None when missing
    tokenFile0,           \* the credential file as it was when main() started
    fileRead,             \* the credential file has been opened for reading
    fileWrites,           \* contents handed to open_atomic(...).write, in order
    banner,               \* the logo and byline have been printed
    prompts,              \* yes/no prompts issued (warnings, force_copy), in order
    tokenPrompts,         \* number of paste_token prompts issued
    fc,                   \* local of main(): answer to the force_copy prompt
    cwd,                  \* the working directory: path -> content
    wsOps,                \* number of mkdir / copy / write calls on cwd
    fitterCalls,          \* argument bags handed to Fitter(...).fit_events
    exitStatus,           \* process exit status, -1 while running
    env,                  \* what main() finds around it: the locale, whether
                          \* googletrans imports, the path (if any) whose
                          \* creation fails, how often the program is started
    langPrompts,          \* number of 'Select a language:' prompts issued
    cwd0,                 \* the working directory as it was when main() started
    run,                  \* which start of the program this is
    ioError               \* an I/O error was raised while copying at launch

vars == <<raw, args, pc, isMaster, changed_iterations, upload_token,
          get_token_from_user, tokenFile, tokenFile0, fileRead, fileWrites,
          banner, prompts, tokenPrompts, fc, cwd, wsOps, fitterCalls, exitStatus,
          env, langPrompts, cwd0, run, ioError>>

----------------------------------------------------------------------------
(* Python values *)

\* None / a missing attribute, and a present value
None == <<>>
Some(x) == <<x>>
IsNone(v) == v = <<>>
Val(v) == v[1]

\* a str is a sequence of one-character strings
Rep(c, n) == [i \in 1..n |-> c]

\* upload_token holds a str, or the list splitlines() returned
Str(s) == [kind |-> "str", val |-> s]
List(l) == [kind |-> "list", val |-> l]
\* len(upload_token)
PyLen(v) == Len(v.val)

----------------------------------------------------------------------------
(* Bounds of the explored inputs *)

MaxIterations == 3
MaxBurn == 1
MaxPrompts == 2
MaxRuns == 2

----------------------------------------------------------------------------
(* Program constants *)

UnsetIterations == -1
NoEventIterations == 0
DefaultIterations == 5000
UnsetSmoothTimes == -1
DefaultSmoothTimes == 20
DefaultFrackStep == 50
DefaultNumTemps == 1
TokenLen == 64
MaxSmoothTimes == 100
MinWalkers == 100
MaxWalkerTemps == 500

\* the value type=float gives `-R` with no argument (1.1), in tenths
ConvergedConst == 11
\* the value `-U` with no argument gets
UncorrelatedConst == 5

Digits == <<"1", "2", "3", "4", "5", "6", "7", "8", "9", "0">>
Lower == <<"a", "b", "c", "d", "e", "f", "g", "h", "i", "j", "k", "l", "m",
           "n", "o", "p", "q", "r", "s", "t", "u", "v", "w", "x", "y", "z">>
\* '1234567890abcdefghijklmnopqrstuvwxyz' '1234567890abcdefghijklmnopqr'
TestToken == Digits \o Lower \o Digits \o SubSeq(Lower, 1, 18)

\* the namespace parse_args() returns when no option is given; the attributes
\* main() adds later (convergence_type, convergence_criteria, upload_token)
\* are missing
Defaults ==
    [events |-> <<>>,
     band_list |-> <<>>,
     iterations |-> UnsetIterations,
     smooth_times |-> DefaultSmoothTimes,
     burn |-> None,
     post_burn |-> None,
     frack_step |-> DefaultFrackStep,
     fracking |-> TRUE,
     run_until_converged |-> None,
     run_until_uncorrelated |-> None,
     convergence_type |-> None,
     convergence_criteria |-> None,
     upload |-> FALSE,
     test |-> FALSE,
     set_upload_token |-> [kind |-> "bool", b |-> FALSE, s |-> <<>>],
     num_walkers |-> None,
     num_temps |-> DefaultNumTemps,
     copy |-> TRUE,
     force_copy |-> FALSE,
     quiet |-> FALSE,
     version |-> FALSE,
     language |-> "en",
     upload_token |-> None]

----------------------------------------------------------------------------
(* Resolution of the options, main() lines 640-668 *)

\* if len(args.band_list) and args.smooth_times == -1: args.smooth_times = 0
resolve_smooth_times(a) ==
    IF Len(a.band_list) # 0 /\ a.smooth_times = UnsetSmoothTimes
    THEN [a EXCEPT !.smooth_times = 0]
    ELSE a

\* changed_iterations after lines 644-650
iterations_changed(a) ==
    a.iterations = UnsetIterations /\ Len(a.events) = 0

resolve_iterations_keep(a) ==
    IF a.iterations = UnsetIterations /\ Len(a.events) # 0
    THEN [a EXCEPT !.iterations = DefaultIterations]
    ELSE a

resolve_iterations_m(a) ==
    IF a.iterations = UnsetIterations
    THEN [a EXCEPT !.iterations = DefaultIterations]
    ELSE a

\* lines 645-650
resolve_iterations(a) ==
    IF a.iterations = UnsetIterations
    THEN IF Len(a.events) = 0
         THEN [a EXCEPT !.iterations = NoEventIterations]
         ELSE [a EXCEPT !.iterations = DefaultIterations]
    ELSE a

resolve_burn_m(a) ==
    IF IsNone(a.burn)
    THEN [a EXCEPT !.burn = Some(a.iterations \div 2)]
    ELSE a

\* lines 652-653: int(np.floor(args.iterations / 2))
resolve_burn(a) ==
    IF IsNone(a.burn) /\ IsNone(a.post_burn)
    THEN [a EXCEPT !.burn = Some(a.iterations \div 2)]
    ELSE a

resolve_fracking_m(a) ==
    IF a.frack_step = 0 THEN a ELSE [a EXCEPT !.fracking = FALSE]

\* lines 655-656
resolve_fracking(a) ==
    IF a.frack_step = 0 THEN [a EXCEPT !.fracking = FALSE] ELSE a

convergence_conflict_m(a) ==
    ~IsNone(a.run_until_uncorrelated) /\ IsNone(a.run_until_converged)

\* lines 658-659: the condition of the raise
convergence_conflict(a) ==
    ~IsNone(a.run_until_uncorrelated) /\ ~IsNone(a.run_until_converged)

resolve_convergence_m(a) ==
    IF ~IsNone(a.run_until_uncorrelated)
    THEN [a EXCEPT !.convergence_type = Some("psrf"),
                   !.convergence_criteria = Some(Val(a.run_until_uncorrelated))]
    ELSE IF ~IsNone(a.run_until_converged)
    THEN [a EXCEPT !.convergence_type = Some("acor"),
                   !.convergence_criteria = Some(Val(a.run_until_converged))]
    ELSE a

\* lines 663-668: the two elif branches; there is no else branch
resolve_convergence(a) ==
    IF ~IsNone(a.run_until_uncorrelated)
    THEN [a EXCEPT !.convergence_type = Some("acor"),
                   !.convergence_criteria = Some(Val(a.run_until_uncorrelated))]
    ELSE IF ~IsNone(a.run_until_converged)
    THEN [a EXCEPT !.convergence_type = Some("psrf"),
                   !.convergence_criteria = Some(Val(a.run_until_converged))]
    ELSE a

----------------------------------------------------------------------------
(* The upload token, main() lines 689-760 *)

\* truth value of args.set_upload_token (False, True or the str given)
set_upload_token_truthy(a) ==
    IF a.set_upload_token.kind = "bool"
    THEN a.set_upload_token.b
    ELSE Len(a.set_upload_token.s) # 0

\* lines 690-695: the upload_token local after the set_upload_token block
initial_upload_token(a) ==
    IF set_upload_token_truthy(a) /\ a.set_upload_token.kind = "str"
    THEN Str(a.set_upload_token.s)
    ELSE Str(<<>>)

\* truth value of args.num_walkers (None and 0 are false)
num_walkers_truthy(a) ==
    ~IsNone(a.num_walkers) /\ Val(a.num_walkers) # 0

warn_smooth_m(a) ==
    a.upload /\ ~a.test /\ a.smooth_times >= MaxSmoothTimes

\* line 701
warn_smooth(a) ==
    a.upload /\ ~a.test /\ a.smooth_times > MaxSmoothTimes

\* lines 708-709
warn_few_walkers(a) ==
    /\ a.upload /\ ~a.test
    /\ ~IsNone(a.num_walkers)
    /\ Val(a.num_walkers) < MinWalkers

\* lines 716-717
warn_too_many_walkers(a) ==
    /\ a.upload /\ ~a.test
    /\ num_walkers_truthy(a)
    /\ Val(a.num_walkers) * a.num_temps > MaxWalkerTemps

\* str.splitlines() over an alphabet whose only line boundary is "\n": a
\* line ends at each "\n" and at the end of a text that does not end in "\n"
splitlines(s) ==
    LET ends == {i \in 1..Len(s) : s[i] = "\n"} \cup
                (IF Len(s) > 0 /\ s[Len(s)] # "\n" THEN {Len(s) + 1} ELSE {})
        nth(k) == CHOOSE e \in ends : Cardinality({x \in ends : x < e}) = k - 1
    IN  [k \in 1..Cardinality(ends) |->
            SubSeq(s, IF k = 1 THEN 1 ELSE nth(k - 1) + 1, nth(k) - 1)]

stored_token_m(lines, get) ==
    IF Len(lines) # 1
    THEN [upload_token |-> List(lines), get_token_from_user |-> TRUE]
    ELSE [upload_token |-> Str(lines[1]), get_token_from_user |-> get]

\* lines 729-735: upload_token and get_token_from_user after the file was read
\* into `lines`; the token stays the list unless it has one line of 64
stored_token(lines, get) ==
    IF Len(lines) # 1
    THEN [upload_token |-> List(lines), get_token_from_user |-> TRUE]
    ELSE IF Len(lines[1]) # TokenLen
    THEN [upload_token |-> List(lines), get_token_from_user |-> TRUE]
    ELSE [upload_token |-> Str(lines[1]), get_token_from_user |-> get]

\* line 741: the condition of the while loop
token_loop_continues(tok) == PyLen(tok) # TokenLen

----------------------------------------------------------------------------
(* The user directory structure, main() lines 765-835 *)

\* the paths of the working directory the templates reach, and one file of
\* the user's that no template names
Paths == {"jupyter", "jupyter/mosfit.ipynb",
          "modules", "modules/m1", "modules/m1/f.py", "modules/m1/sub",
          "modules/m1/README",
          "models", "models/d1", "models/d1/README",
          "models/d1/parameters.json", "models/d1/notes.txt"}

\* a path holds nothing, a directory, the template's file, the generated
\* README or a file the user wrote
exists(fs, p) == fs[p] # "absent"
isfile(fs, p) == fs[p] \notin {"absent", "dir"}

\* one call that creates or writes p with `content`: nothing once an
\* exception is on its way up; the exception when the operating system
\* refuses p; the new content otherwise
put(st, p, content) ==
    IF st.err THEN st
    ELSE IF p = env.ioFail THEN [st EXCEPT !.err = TRUE]
    ELSE [st EXCEPT !.fs[p] = content, !.ops = st.ops + 1]

\* os.mkdir(p) behind `if not os.path.exists(p)`
mkdir_missing(st, p) ==
    IF ~exists(st.fs, p) THEN put(st, p, "dir") ELSE st

\* shutil.copy(template, p)
copy_seed(st, p) == put(st, p, "seed")

\* open(readme_path, 'w').write(txt) behind `if not os.path.exists`
readme_missing(st, p) ==
    IF ~exists(st.fs, p) THEN put(st, p, "readme") ELSE st

\* lines 771-777
provision_jupyter(st, force) ==
    LET a == mkdir_missing(st, "jupyter")
    IN  IF ~isfile(a.fs, "jupyter/mosfit.ipynb") \/ force
        THEN copy_seed(a, "jupyter/mosfit.ipynb")
        ELSE a

\* lines 779-807 for the template module m1, whose .copy names the file f.py
\* and the directory sub
provision_modules(st, force) ==
    LET a == mkdir_missing(st, "modules")
        b == mkdir_missing(a, "modules/m1")
        c == copy_seed(b, "modules/m1/f.py")
        d == mkdir_missing(c, "modules/m1/sub")
    IN  readme_missing(d, "modules/m1/README")

\* lines 809-835 for the template model d1
provision_models(st, force) ==
    LET a == mkdir_missing(st, "models")
        b == mkdir_missing(a, "models/d1")
        c == readme_missing(b, "models/d1/README")
    IN  IF isfile(c.fs, "models/d1/parameters.json") /\ ~force
        THEN c
        ELSE copy_seed(c, "models/d1/parameters.json")

\* lines 771-835
provision(st, force) ==
    provision_models(provision_modules(provision_jupyter(st, force), force), force)

EmptyCwd == [p \in Paths |-> "absent"]

\* a working directory an earlier run filled, with the user's edits in it
UserCwd ==
    [p \in Paths |->
        IF p \in {"jupyter", "modules", "modules/m1", "modules/m1/sub",
                  "models", "models/d1"}
        THEN "dir"
        ELSE "user"]

----------------------------------------------------------------------------
(* Inputs *)

TokA == Rep("a", TokenLen)
TokB == Rep("b", TokenLen)
ShortTok == Rep("a", TokenLen - 1)
LongTok == Rep("b", TokenLen + 1)

\* a file of TokenLen lines, each the one character "a"
ManyLines == [i \in 1..(2 * TokenLen) |-> IF i % 2 = 1 THEN "a" ELSE "\n"]

\* contents of cache/dropbox.token at start; None: the file is missing
TokenFiles ==
    {None, Some(TokA), Some(TokA \o <<"\n">>), Some(ShortTok), Some(<<>>),
     Some(TokA \o <<"\n">> \o TokB), Some(ManyLines)}

\* what the user may paste at the paste_token prompt
Entries == {TokB, ShortTok, LongTok}

NotSet == [kind |-> "bool", b |-> FALSE, s |-> <<>>]
SetNoArg == [kind |-> "bool", b |-> TRUE, s |-> <<>>]
SetTo(t) == [kind |-> "str", b |-> FALSE, s |-> t]
SetUploadTokens == {NotSet, SetNoArg, SetTo(TokB), SetTo(ShortTok), SetTo(<<>>)}

OptInts(lo, hi) == {None} \cup {Some(n) : n \in lo..hi}

\* nothing unusual around main(): no locale, googletrans at hand, no I/O
\* failure, one start of the program
PlainEnv == [locale |-> None, googletrans |-> TRUE, ioFail |-> "none", runs |-> 1]

Start(r, m, f, w, e) ==
    /\ raw = r
    /\ args = r
    /\ pc = "language"
    /\ isMaster = m
    /\ env = e
    /\ langPrompts = 0
    /\ cwd0 = w
    /\ run = 1
    /\ ioError = FALSE
    /\ changed_iterations = FALSE
    /\ upload_token = Str(<<>>)
    /\ get_token_from_user = FALSE
    /\ tokenFile = f
    /\ tokenFile0 = f
    /\ fileRead = FALSE
    /\ fileWrites = <<>>
    /\ banner = FALSE
    /\ prompts = <<>>
    /\ tokenPrompts = 0
    /\ fc = FALSE
    /\ cwd = w
    /\ wsOps = 0
    /\ fitterCalls = <<>>
    /\ exitStatus = -1

\* the options the resolution reads, over their whole bounded range
InitResolve ==
    \E ev \in {<<>>, <<"SN2011fe">>},
       it \in (-3)..MaxIterations,
       bu \in OptInts(0, MaxBurn),
       pb \in OptInts(0, MaxBurn),
       fs \in {0, DefaultFrackStep},
       fr \in BOOLEAN,
       rc \in {None, Some(ConvergedConst)},
       ru \in {None, Some(UncorrelatedConst)},
       m \in BOOLEAN :
        Start([Defaults EXCEPT !.events = ev, !.iterations = it, !.burn = bu,
                               !.post_burn = pb, !.frack_step = fs,
                               !.fracking = fr, !.run_until_converged = rc,
                               !.run_until_uncorrelated = ru],
              m, None, EmptyCwd, PlainEnv)

\* the options the upload warnings read
InitWarn ==
    \E up \in BOOLEAN,
       te \in BOOLEAN,
       st \in {UnsetSmoothTimes, MaxSmoothTimes, MaxSmoothTimes + 1},
       bl \in {<<>>, <<"B">>},
       nw \in {None, Some(0), Some(MinWalkers - 1), Some(MinWalkers),
               Some(MinWalkers + 1)},
       nt \in {DefaultNumTemps, 5, 6},
       su \in {NotSet, SetNoArg},
       f \in {None, Some(TokA)},
       m \in BOOLEAN :
        Start([Defaults EXCEPT !.upload = up, !.test = te, !.smooth_times = st,
                               !.band_list = bl, !.num_walkers = nw,
                               !.num_temps = nt, !.set_upload_token = su],
              m, f, EmptyCwd, PlainEnv)

\* the options and the stored file the token protocol reads
InitToken ==
    \E up \in BOOLEAN,
       te \in BOOLEAN,
       su \in SetUploadTokens,
       f \in TokenFiles,
       m \in BOOLEAN :
        Start([Defaults EXCEPT !.upload = up, !.test = te,
                               !.set_upload_token = su],
              m, f, EmptyCwd, PlainEnv)

\* the options and the working directory the copy at launch reads
InitCopy ==
    \E co \in BOOLEAN,
       fo \in BOOLEAN,
       qu \in BOOLEAN,
       w \in {EmptyCwd, UserCwd},
       io \in Paths \cup {"none"},
       n \in 1..MaxRuns,
       m \in BOOLEAN :
        Start([Defaults EXCEPT !.copy = co, !.force_copy = fo, !.quiet = qu],
              m, None, w, [PlainEnv EXCEPT !.ioFail = io, !.runs = n])

\* the language codes of googletrans.constants.LANGUAGES
LANGUAGES == {"en", "de", "fr"}

\* locale.getlocale()[0]: None, or a language and a territory joined by '_'
Locales == {None, Some(<<"en", "US">>), Some(<<"de", "DE">>)}

\* the options and the surroundings lines 593-627 read
InitLanguage ==
    \E ve \in BOOLEAN,
       la \in {"en", "select", "de", "xx"},
       lo \in Locales,
       gt \in BOOLEAN,
       rc \in {None, Some(ConvergedConst)},
       ru \in {None, Some(UncorrelatedConst)},
       m \in BOOLEAN :
        Start([Defaults EXCEPT !.version = ve, !.language = la,
                               !.run_until_converged = rc,
                               !.run_until_uncorrelated = ru],
              m, None, EmptyCwd,
              [PlainEnv EXCEPT !.locale = lo, !.googletrans = gt])

Init == InitResolve \/ InitWarn \/ InitToken \/ InitCopy \/ InitLanguage

----------------------------------------------------------------------------
(* main(), lines 593-627: the version and the language *)

\* lines 602-605: loc[0].split('_')[0] replaces the default 'en'
locale_language(a) ==
    IF a.language = "en" /\ ~IsNone(env.locale)
    THEN Val(env.locale)[1]
    ELSE a.language

\* line 615
must_select_language(lang) == lang = "select" \/ lang \notin LANGUAGES

\* lines 593-595: print the version and return
PrintVersion ==
    /\ pc = "language"
    /\ args.version
    /\ pc' = "returned"
    /\ exitStatus' = 0
    /\ UNCHANGED <<env, langPrompts, cwd0, run, ioError, raw, args, isMaster,
                   changed_iterations, upload_token, get_token_from_user,
                   tokenFile, tokenFile0, fileRead, fileWrites, banner, prompts,
                   tokenPrompts, fc, cwd, wsOps, fitterCalls>>

\* lines 607-613: the import fails and RuntimeError is raised
MissingGoogletrans ==
    /\ pc = "language"
    /\ ~args.version
    /\ locale_language(args) # "en"
    /\ ~env.googletrans
    /\ args' = [args EXCEPT !.language = locale_language(args)]
    /\ pc' = "import_error"
    /\ exitStatus' = 1
    /\ UNCHANGED <<env, langPrompts, cwd0, run, ioError, raw, isMaster,
                   changed_iterations, upload_token, get_token_from_user,
                   tokenFile, tokenFile0, fileRead, fileWrites, banner, prompts,
                   tokenPrompts, fc, cwd, wsOps, fitterCalls>>

\* lines 615-624: tprt.prompt('Select a language:', ...), on every process
PromptLanguage ==
    /\ pc = "language"
    /\ ~args.version
    /\ locale_language(args) # "en"
    /\ env.googletrans
    /\ must_select_language(locale_language(args))
    /\ \E sel \in LANGUAGES : args' = [args EXCEPT !.language = sel]
    /\ langPrompts' = langPrompts + 1
    /\ pc' = "resolve"
    /\ UNCHANGED <<env, cwd0, run, ioError, raw, isMaster,
                   changed_iterations, upload_token, get_token_from_user,
                   tokenFile, tokenFile0, fileRead, fileWrites, banner, prompts,
                   tokenPrompts, fc, cwd, wsOps, fitterCalls, exitStatus>>

\* lines 602-627 without a prompt: 'en', or a language googletrans knows
KeepLanguage ==
    /\ pc = "language"
    /\ ~args.version
    /\ \/ locale_language(args) = "en"
       \/ env.googletrans /\ ~must_select_language(locale_language(args))
    /\ args' = [args EXCEPT !.language = locale_language(args)]
    /\ pc' = "resolve"
    /\ UNCHANGED <<env, langPrompts, cwd0, run, ioError, raw, isMaster,
                   changed_iterations, upload_token, get_token_from_user,
                   tokenFile, tokenFile0, fileRead, fileWrites, banner, prompts,
                   tokenPrompts, fc, cwd, wsOps, fitterCalls, exitStatus>>

----------------------------------------------------------------------------
(* main() *)

\* lines 640-656
ResolveOptions ==
    /\ pc = "resolve"
    /\ changed_iterations' = iterations_changed(args)
    /\ args' = resolve_fracking(resolve_burn(resolve_iterations(
                    resolve_smooth_times(args))))
    /\ pc' = "convergence"
    /\ UNCHANGED <<env, langPrompts, cwd0, run, ioError, raw, isMaster, upload_token, get_token_from_user, tokenFile,
                   tokenFile0, fileRead, fileWrites, banner, prompts,
                   tokenPrompts, fc, cwd, wsOps, fitterCalls, exitStatus>>

\* lines 658-662: raise ValueError; the interpreter ends with status 1
RaiseIncompatible ==
    /\ pc = "convergence"
    /\ convergence_conflict(args)
    /\ pc' = "raised"
    /\ exitStatus' = 1
    /\ UNCHANGED <<env, langPrompts, cwd0, run, ioError, raw, args, isMaster, changed_iterations, upload_token,
                   get_token_from_user, tokenFile, tokenFile0, fileRead,
                   fileWrites, banner, prompts, tokenPrompts, fc, cwd, wsOps,
                   fitterCalls>>

\* lines 663-668
ResolveConvergence ==
    /\ pc = "convergence"
    /\ ~convergence_conflict(args)
    /\ args' = resolve_convergence(args)
    /\ pc' = "is_master"
    /\ UNCHANGED <<env, langPrompts, cwd0, run, ioError, raw, isMaster, changed_iterations, upload_token,
                   get_token_from_user, tokenFile, tokenFile0, fileRead,
                   fileWrites, banner, prompts, tokenPrompts, fc, cwd, wsOps,
                   fitterCalls, exitStatus>>

\* line 670 false: straight to the Fitter
NotMaster ==
    /\ pc = "is_master"
    /\ ~isMaster
    /\ pc' = "fit"
    /\ UNCHANGED <<env, langPrompts, cwd0, run, ioError, raw, args, isMaster, changed_iterations, upload_token,
                   get_token_from_user, tokenFile, tokenFile0, fileRead,
                   fileWrites, banner, prompts, tokenPrompts, fc, cwd, wsOps,
                   fitterCalls, exitStatus>>

\* lines 670-697: the logo, then the locals of the token protocol
MasterSetup ==
    /\ pc = "is_master"
    /\ isMaster
    /\ banner' = ~args.quiet
    /\ upload_token' = initial_upload_token(args)
    /\ get_token_from_user' = set_upload_token_truthy(args)
    /\ pc' = "warn_smooth"
    /\ UNCHANGED <<env, langPrompts, cwd0, run, ioError, raw, args, isMaster, changed_iterations, tokenFile,
                   tokenFile0, fileRead, fileWrites, prompts, tokenPrompts, fc,
                   cwd, wsOps, fitterCalls, exitStatus>>

\* response = prt.prompt(name); upload is switched off or sys.exit() is called,
\* which ends the process with status 0
AnswerWarning(name, next) ==
    \E response \in BOOLEAN :
        /\ prompts' = Append(prompts, name)
        /\ IF response
           THEN /\ args' = [args EXCEPT !.upload = FALSE]
                /\ pc' = next
                /\ exitStatus' = exitStatus
           ELSE /\ args' = args
                /\ pc' = "exited"
                /\ exitStatus' = 0

\* no prompt: on to the next check
NoWarning(next) ==
    /\ pc' = next
    /\ UNCHANGED <<args, prompts, exitStatus>>

\* lines 701-706
WarnSmooth ==
    /\ pc = "warn_smooth"
    /\ IF warn_smooth(args)
       THEN AnswerWarning("ul_warning_smooth", "warn_few_walkers")
       ELSE NoWarning("warn_few_walkers")
    /\ UNCHANGED <<env, langPrompts, cwd0, run, ioError, raw, isMaster, changed_iterations, upload_token,
                   get_token_from_user, tokenFile, tokenFile0, fileRead,
                   fileWrites, banner, tokenPrompts, fc, cwd, wsOps, fitterCalls>>

\* lines 708-714
WarnFewWalkers ==
    /\ pc = "warn_few_walkers"
    /\ IF warn_few_walkers(args)
       THEN AnswerWarning("ul_warning_few_walkers", "warn_too_many_walkers")
       ELSE NoWarning("warn_too_many_walkers")
    /\ UNCHANGED <<env, langPrompts, cwd0, run, ioError, raw, isMaster, changed_iterations, upload_token,
                   get_token_from_user, tokenFile, tokenFile0, fileRead,
                   fileWrites, banner, tokenPrompts, fc, cwd, wsOps, fitterCalls>>

\* lines 716-722
WarnTooManyWalkers ==
    /\ pc = "warn_too_many_walkers"
    /\ IF warn_too_many_walkers(args)
       THEN AnswerWarning("ul_warning_too_many_walkers", "load_token")
       ELSE NoWarning("load_token")
    /\ UNCHANGED <<env, langPrompts, cwd0, run, ioError, raw, isMaster, changed_iterations, upload_token,
                   get_token_from_user, tokenFile, tokenFile0, fileRead,
                   fileWrites, banner, tokenPrompts, fc, cwd, wsOps, fitterCalls>>

\* lines 724-735
LoadToken ==
    /\ pc = "load_token"
    /\ IF ~args.upload
       THEN UNCHANGED <<upload_token, get_token_from_user, fileRead>>
       ELSE IF IsNone(tokenFile)
       THEN /\ get_token_from_user' = TRUE
            /\ UNCHANGED <<upload_token, fileRead>>
       ELSE LET r == stored_token(splitlines(Val(tokenFile)),
                                  get_token_from_user)
            IN  /\ fileRead' = TRUE
                /\ upload_token' = r.upload_token
                /\ get_token_from_user' = r.get_token_from_user
    /\ pc' = "acquire"
    /\ UNCHANGED <<env, langPrompts, cwd0, run, ioError, raw, args, isMaster, changed_iterations, tokenFile,
                   tokenFile0, fileWrites, banner, prompts, tokenPrompts, fc,
                   cwd, wsOps, fitterCalls, exitStatus>>

\* lines 737-740
Acquire ==
    /\ pc = "acquire"
    /\ IF get_token_from_user
       THEN /\ upload_token' = IF args.test THEN Str(TestToken) ELSE upload_token
            /\ pc' = "token_loop"
       ELSE /\ upload_token' = upload_token
            /\ pc' = "finish_token"
    /\ UNCHANGED <<env, langPrompts, cwd0, run, ioError, raw, args, isMaster, changed_iterations,
                   get_token_from_user, tokenFile, tokenFile0, fileRead,
                   fileWrites, banner, prompts, tokenPrompts, fc, cwd, wsOps,
                   fitterCalls, exitStatus>>

\* lines 741-750: one turn of the while loop; the user pastes `entry`
PromptToken ==
    /\ pc = "token_loop"
    /\ token_loop_continues(upload_token)
    /\ \E entry \in Entries :
        /\ Len(entry) = TokenLen \/ tokenPrompts < MaxPrompts
        /\ upload_token' = Str(entry)
    /\ tokenPrompts' = tokenPrompts + 1
    /\ UNCHANGED <<env, langPrompts, cwd0, run, ioError, raw, args, pc, isMaster, changed_iterations,
                   get_token_from_user, tokenFile, tokenFile0, fileRead,
                   fileWrites, banner, prompts, fc, cwd, wsOps, fitterCalls,
                   exitStatus>>

\* line 741 false: the loop is left
LeaveTokenLoop ==
    /\ pc = "token_loop"
    /\ ~token_loop_continues(upload_token)
    /\ pc' = "write_token"
    /\ UNCHANGED <<env, langPrompts, cwd0, run, ioError, raw, args, isMaster, changed_iterations, upload_token,
                   get_token_from_user, tokenFile, tokenFile0, fileRead,
                   fileWrites, banner, prompts, tokenPrompts, fc, cwd, wsOps,
                   fitterCalls, exitStatus>>

\* open_atomic(path, 'w'): the target is replaced once the block has ended
\* without an exception
open_atomic_write(file, data) ==
    IF data.kind = "str" THEN Some(data.val) ELSE file

\* lines 751-752: f.write(upload_token); a list makes write() raise TypeError
WriteToken ==
    /\ pc = "write_token"
    /\ tokenFile' = open_atomic_write(tokenFile, upload_token)
    /\ IF upload_token.kind = "str"
       THEN /\ fileWrites' = Append(fileWrites, upload_token.val)
            /\ pc' = "finish_token"
            /\ exitStatus' = exitStatus
       ELSE /\ fileWrites' = fileWrites
            /\ pc' = "raised"
            /\ exitStatus' = 1
    /\ UNCHANGED <<env, langPrompts, cwd0, run, ioError, raw, args, isMaster, changed_iterations, upload_token,
                   get_token_from_user, tokenFile0, fileRead, banner, prompts,
                   tokenPrompts, fc, cwd, wsOps, fitterCalls>>

\* lines 754-763
FinishToken ==
    /\ pc = "finish_token"
    /\ args' = [args EXCEPT !.upload_token = Some(upload_token)]
    /\ pc' = "workspace"
    /\ UNCHANGED <<env, langPrompts, cwd0, run, ioError, raw, isMaster, changed_iterations, upload_token,
                   get_token_from_user, tokenFile, tokenFile0, fileRead,
                   fileWrites, banner, prompts, tokenPrompts, fc, cwd, wsOps,
                   fitterCalls, exitStatus>>

\* line 766 false
NoCopy ==
    /\ pc = "workspace"
    /\ ~args.copy
    /\ pc' = "fit"
    /\ UNCHANGED <<env, langPrompts, cwd0, run, ioError, raw, args, isMaster, changed_iterations, upload_token,
                   get_token_from_user, tokenFile, tokenFile0, fileRead,
                   fileWrites, banner, prompts, tokenPrompts, fc, cwd, wsOps,
                   fitterCalls, exitStatus>>

\* lines 766-835; no statement of them catches an exception, so the first
\* I/O error ends main()
CopyAtLaunch ==
    /\ pc = "workspace"
    /\ args.copy
    /\ IF args.force_copy
       THEN /\ fc' \in BOOLEAN
            /\ prompts' = Append(prompts, "force_copy")
       ELSE /\ fc' = FALSE
            /\ prompts' = prompts
    /\ LET r == provision([fs |-> cwd, ops |-> wsOps, err |-> FALSE], fc')
       IN  /\ cwd' = r.fs
           /\ wsOps' = r.ops
           /\ ioError' = r.err
           /\ pc' = IF r.err THEN "raised" ELSE "fit"
           /\ exitStatus' = IF r.err THEN 1 ELSE exitStatus
    /\ UNCHANGED <<env, langPrompts, cwd0, run, raw, args, isMaster,
                   changed_iterations, upload_token, get_token_from_user,
                   tokenFile, tokenFile0, fileRead, fileWrites, banner,
                   tokenPrompts, fitterCalls>>

\* lines 838-839: Fitter(**fitargs).fit_events(**fitargs), then main() returns
Fit ==
    /\ pc = "fit"
    /\ fitterCalls' = Append(fitterCalls, args)
    /\ pc' = "done"
    /\ exitStatus' = 0
    /\ UNCHANGED <<env, langPrompts, cwd0, run, ioError, raw, args, isMaster, changed_iterations, upload_token,
                   get_token_from_user, tokenFile, tokenFile0, fileRead,
                   fileWrites, banner, prompts, tokenPrompts, fc, cwd, wsOps>>

\* lines 842-843: the program is started again, with the same options, in
\* the working directory and with the credential file the last start left
Relaunch ==
    /\ pc = "done"
    /\ run < env.runs
    /\ run' = run + 1
    /\ args' = raw
    /\ pc' = "language"
    /\ changed_iterations' = FALSE
    /\ upload_token' = Str(<<>>)
    /\ get_token_from_user' = FALSE
    /\ tokenFile0' = tokenFile
    /\ cwd0' = cwd
    /\ fileRead' = FALSE
    /\ fileWrites' = <<>>
    /\ banner' = FALSE
    /\ prompts' = <<>>
    /\ tokenPrompts' = 0
    /\ langPrompts' = 0
    /\ fc' = FALSE
    /\ wsOps' = 0
    /\ ioError' = FALSE
    /\ fitterCalls' = <<>>
    /\ exitStatus' = -1
    /\ UNCHANGED <<env, raw, isMaster, tokenFile, cwd>>

Next ==
    \/ PrintVersion
    \/ MissingGoogletrans
    \/ PromptLanguage
    \/ KeepLanguage
    \/ Relaunch
    \/ ResolveOptions
    \/ RaiseIncompatible
    \/ ResolveConvergence
    \/ NotMaster
    \/ MasterSetup
    \/ WarnSmooth
    \/ WarnFewWalkers
    \/ WarnTooManyWalkers
    \/ LoadToken
    \/ Acquire
    \/ PromptToken
    \/ LeaveTokenLoop
    \/ WriteToken
    \/ FinishToken
    \/ NoCopy
    \/ CopyAtLaunch
    \/ Fit

Spec == Init /\ [][Next]_vars

----------------------------------------------------------------------------
(* Positions of main() the properties speak about *)

\* the options have been through lines 640-656
Derived == pc \notin {"language", "returned", "import_error", "resolve"}

\* both convergence selectors were given
BothSelectors ==
    ~IsNone(raw.run_until_converged) /\ ~IsNone(raw.run_until_uncorrelated)

\* the options resolved without the ValueError of line 660
Resolved == Derived /\ pc # "convergence" /\ ~BothSelectors

\* the leader is past the three upload checks
PastWarnings ==
    /\ isMaster
    /\ Resolved
    /\ pc \notin {"is_master", "warn_smooth", "warn_few_walkers",
                  "warn_too_many_walkers", "exited"}

\* the leader is past the read of the stored token
PastLoad == PastWarnings /\ pc # "load_token"

\* the leader has completed the token protocol
PastToken == PastLoad /\ pc \in {"workspace", "fit", "done"}

WarningNames == {"ul_warning_smooth", "ul_warning_few_walkers",
                 "ul_warning_too_many_walkers"}

\* the upload warnings issued so far
WarningsIssued == {i \in 1..Len(prompts) : prompts[i] \in WarningNames}

NoSideEffects ==
    /\ ~fileRead
    /\ fileWrites = <<>>
    /\ tokenFile = tokenFile0
    /\ WarningsIssued = {}
    /\ tokenPrompts = 0
    /\ wsOps = 0
    /\ fitterCalls = <<>>

----------------------------------------------------------------------------
(* C1 *)

\* C1: when both run_until_converged and run_until_uncorrelated are set,
\* main() never gets past the raise of line 660: it ends with the error, and
\* the credential file is neither read nor written, no upload warning or
\* token prompt is issued, nothing is created in the working directory and
\* the Fitter is not invoked.
C1_ConflictFailsFirst ==
    BothSelectors =>
        /\ pc \in {"language", "returned", "import_error", "resolve",
                  "convergence", "raised"}
        /\ pc = "raised" => exitStatus = 1
        /\ NoSideEffects
        /\ prompts = <<>>

C1_Witness ==
    /\ BothSelectors
    /\ pc = "raised"
    /\ isMaster
    /\ fitterCalls = <<>>

----------------------------------------------------------------------------
(* C2 *)

\* C2: the resolved iterations is 0 when the raw value is -1 and no event is
\* listed, 5000 when the raw value is -1 and events are listed, and the raw
\* value itself when that is not -1.
C2_Iterations ==
    Derived =>
        /\ (raw.iterations = -1 /\ raw.events = <<>>) => args.iterations = 0
        /\ (raw.iterations = -1 /\ raw.events # <<>>) => args.iterations = 5000
        /\ raw.iterations # -1 => args.iterations = raw.iterations

C2_Witness ==
    /\ Derived
    /\ raw.iterations = -1
    /\ raw.events # <<>>
    /\ args.iterations = 5000

----------------------------------------------------------------------------
(* C3 *)

\* b is floor(i / 2)
IsHalfFloor(b, i) == 2 * b <= i /\ i < 2 * b + 2

\* C3: when neither burn nor post_burn is supplied, the resolved burn is
\* floor(I / 2) for the resolved iterations I and post_burn stays absent;
\* when one of them is supplied both keep their raw values.
C3_Burn ==
    Derived =>
        IF IsNone(raw.burn) /\ IsNone(raw.post_burn)
        THEN /\ ~IsNone(args.burn)
             /\ IsHalfFloor(Val(args.burn), args.iterations)
             /\ IsNone(args.post_burn)
        ELSE /\ args.burn = raw.burn
             /\ args.post_burn = raw.post_burn

C3_Witness ==
    /\ Derived
    /\ raw.iterations = -1
    /\ IsNone(raw.burn)
    /\ IsNone(raw.post_burn)
    /\ args.burn = Some(2500)

----------------------------------------------------------------------------
(* C4 *)

\* C4 as stated: every configuration that resolves without error has
\* iterations >= 0 and, when burn is present, 0 <= burn <= iterations,
\* whatever integers were supplied.
C4_RangeAnyInput ==
    Resolved =>
        /\ args.iterations >= 0
        /\ ~IsNone(args.burn) =>
                (0 <= Val(args.burn) /\ Val(args.burn) <= args.iterations)

\* C4 amended: when the raw iterations is the sentinel -1 or non-negative and
\* neither burn nor post_burn is supplied, the resolved configuration has
\* iterations >= 0 and a burn with 0 <= burn <= iterations.
C4_RangeDerived ==
    (Resolved /\ raw.iterations >= -1
        /\ IsNone(raw.burn) /\ IsNone(raw.post_burn)) =>
        /\ args.iterations >= 0
        /\ ~IsNone(args.burn)
        /\ 0 <= Val(args.burn)
        /\ Val(args.burn) <= args.iterations

C4_Witness ==
    /\ Resolved
    /\ raw.iterations = 3
    /\ IsNone(raw.burn)
    /\ IsNone(raw.post_burn)
    /\ args.burn = Some(1)

----------------------------------------------------------------------------
(* C5 *)

\* C5: in the resolved options frack_step = 0 implies fracking = FALSE
\* whatever the raw flag was, and with frack_step # 0 fracking is the raw flag.
C5_Fracking ==
    Derived =>
        /\ args.frack_step = raw.frack_step
        /\ args.frack_step = 0 => args.fracking = FALSE
        /\ args.frack_step # 0 => args.fracking = raw.fracking

C5_Witness ==
    /\ Derived
    /\ raw.frack_step = 0
    /\ raw.fracking
    /\ ~args.fracking

----------------------------------------------------------------------------
(* C6 *)

OnlyConverged ==
    ~IsNone(raw.run_until_converged) /\ IsNone(raw.run_until_uncorrelated)

OnlyUncorrelated ==
    IsNone(raw.run_until_converged) /\ ~IsNone(raw.run_until_uncorrelated)

NoSelector ==
    IsNone(raw.run_until_converged) /\ IsNone(raw.run_until_uncorrelated)

\* the mapping of a given selector, common to C6 as stated and as amended
SelectorMapping ==
    /\ OnlyConverged =>
        /\ args.convergence_type = Some("psrf")
        /\ args.convergence_criteria = raw.run_until_converged
    /\ OnlyUncorrelated =>
        /\ args.convergence_type = Some("acor")
        /\ args.convergence_criteria = raw.run_until_uncorrelated

----------------------------------------------------------------------------
(* C7 *)

\* the state of the token protocol once the stored file has been looked at
CredentialState ==
    IF get_token_from_user THEN "NEED_TO_ACQUIRE"
    ELSE IF args.upload THEN "HAVE_VALID_CREDENTIAL"
    ELSE "NO_CREDENTIAL_NEEDED"

\* --set-upload-token was given, alone or with a non-empty argument
SetRequest ==
    \/ raw.set_upload_token.kind = "bool" /\ raw.set_upload_token.b
    \/ raw.set_upload_token.kind = "str" /\ raw.set_upload_token.s # <<>>

\* the text c is one line of exactly 64 characters
OneLineOf64(c) ==
    /\ \/ Len(c) = 64
       \/ Len(c) = 65 /\ c[65] = "\n"
    /\ \A i \in 1..64 : c[i] # "\n"

\* the stored file held exactly one line of exactly 64 characters
ValidStored == ~IsNone(tokenFile0) /\ OneLineOf64(Val(tokenFile0))

StoredLine == SubSeq(Val(tokenFile0), 1, 64)

NoCredentialNeeded ==
    /\ CredentialState = "NO_CREDENTIAL_NEEDED"
    /\ ~fileRead
    /\ tokenPrompts = 0
    /\ fileWrites = <<>>
    /\ tokenFile = tokenFile0
    /\ PastToken => args.upload_token = Some(Str(<<>>))

HaveValidCredential ==
    /\ CredentialState = "HAVE_VALID_CREDENTIAL"
    /\ tokenPrompts = 0
    /\ fileWrites = <<>>
    /\ tokenFile = tokenFile0
    /\ PastToken => args.upload_token = Some(Str(StoredLine))

\* the stored file is loaded and classified by its content
ClassifiedByFile ==
    /\ fileRead <=> ~IsNone(tokenFile0)
    /\ IF ValidStored
       THEN HaveValidCredential
       ELSE CredentialState = "NEED_TO_ACQUIRE"

\* C7 as stated: without upload and without a set-token request nothing is
\* needed; in every other case the stored file is loaded and alone decides
\* between HAVE_VALID_CREDENTIAL and NEED_TO_ACQUIRE.
C7_FileAloneDecides ==
    PastLoad =>
        IF ~args.upload /\ ~SetRequest
        THEN NoCredentialNeeded
        ELSE ClassifiedByFile

\* C7 amended: without upload in effect and without a set-token request the
\* state is NO_CREDENTIAL_NEEDED (file not read, no prompt, nothing written,
\* empty token handed on); a set-token request gives NEED_TO_ACQUIRE whatever
\* the stored file holds, and the file is then read only if upload is in
\* effect; with upload in effect and no set-token request the stored file is
\* loaded and the state is HAVE_VALID_CREDENTIAL (no prompt, no write, the
\* stored line handed on) exactly when it holds one line of 64 characters,
\* NEED_TO_ACQUIRE for every deviation.
C7_Classification ==
    PastLoad =>
        IF ~args.upload /\ ~SetRequest
        THEN NoCredentialNeeded
        ELSE IF SetRequest
        THEN /\ CredentialState = "NEED_TO_ACQUIRE"
             /\ fileRead <=> (args.upload /\ ~IsNone(tokenFile0))
        ELSE ClassifiedByFile

C7_Witness ==
    /\ PastToken
    /\ ~SetRequest
    /\ args.upload
    /\ tokenFile0 = Some(TokA \o <<"\n">>)
    /\ CredentialState = "HAVE_VALID_CREDENTIAL"
    /\ args.upload_token = Some(Str(TokA))

----------------------------------------------------------------------------
(* C8 *)

\* C8: whatever is written to the credential file is one string of exactly
\* 64 characters; the prompt loop is left only with a string of 64
\* characters; in test mode nothing is prompted and what is written is the
\* placeholder.
C8_StoredCredential ==
    /\ \A i \in 1..Len(fileWrites) : Len(fileWrites[i]) = 64
    /\ pc = "write_token" =>
        /\ upload_token.kind = "str"
        /\ Len(upload_token.val) = 64
    /\ raw.test =>
        /\ tokenPrompts = 0
        /\ \A i \in 1..Len(fileWrites) : fileWrites[i] = TestToken

----------------------------------------------------------------------------
(* C9 *)

\* upload is wanted and test mode is off
Armed == raw.upload /\ ~raw.test

\* the condition the claim gives for the warning called `name`
WarningDue(name) ==
    IF name = "ul_warning_smooth"
    THEN raw.smooth_times > 100
    ELSE IF name = "ul_warning_few_walkers"
    THEN ~IsNone(raw.num_walkers) /\ Val(raw.num_walkers) < 100
    ELSE /\ ~IsNone(raw.num_walkers)
         /\ Val(raw.num_walkers) * raw.num_temps > 500

\* the leader has gone through the three checks, to the end or to an exit
ChecksDone ==
    /\ isMaster
    /\ Resolved
    /\ pc \notin {"is_master", "warn_smooth", "warn_few_walkers",
                  "warn_too_many_walkers"}

\* C9: a warning is prompted only with upload wanted and test mode off and
\* only when its condition holds (more than 100 smooth times, fewer than 100
\* walkers, more than 500 walkers times temperatures); when one of the
\* conditions holds a warning is prompted; after a confirmed warning the run
\* goes on with upload off; after a declined one the process has exited with
\* the credential file unread and unwritten, the working directory untouched
\* and the Fitter not invoked.
C9_UploadWarnings ==
    /\ \A i \in WarningsIssued : Armed /\ WarningDue(prompts[i])
    /\ (ChecksDone /\ Armed /\ (\E n \in WarningNames : WarningDue(n))) =>
            WarningsIssued # {}
    /\ (PastWarnings /\ WarningsIssued # {}) => ~args.upload
    /\ pc = "exited" =>
        /\ WarningsIssued # {}
        /\ args.upload
        /\ ~fileRead
        /\ fileWrites = <<>>
        /\ tokenFile = tokenFile0
        /\ tokenPrompts = 0
        /\ wsOps = 0
        /\ fitterCalls = <<>>

C9_Witness ==
    /\ pc = "done"
    /\ isMaster
    /\ raw.upload
    /\ raw.num_walkers = Some(100)
    /\ prompts = <<"ul_warning_too_many_walkers">>
    /\ ~args.upload
    /\ Len(fitterCalls) = 1

----------------------------------------------------------------------------
(* C10 *)

\* C10: the run that hits the incompatible selectors and the run in which a
\* warning is declined both end with a non-zero status; every other run ends
\* in the Fitter.
C10_ExitStatus ==
    /\ (pc = "raised" /\ BothSelectors) => exitStatus # 0
    /\ pc = "exited" => exitStatus # 0
    /\ (pc = "raised" /\ ~BothSelectors) => FALSE
    /\ pc = "done" => Len(fitterCalls) = 1

----------------------------------------------------------------------------
(* C11 *)

\* the files the templates seed: the notebook, the file of m1's .copy
\* manifest, the model's parameters.json
SeedFiles == {"jupyter/mosfit.ipynb", "modules/m1/f.py",
              "models/d1/parameters.json"}

Readmes == {"modules/m1/README", "models/d1/README"}

\* --force-copy-at-launch was given and the force_copy prompt confirmed
ForceInEffect == args.force_copy /\ fc

\* C11: a seed file is written only if its destination was absent or force
\* is in effect; without force no file that existed keeps anything but its
\* old content; an existing README is never overwritten; a file outside the
\* seed list is never modified or deleted; with copy disabled the working
\* directory is not touched.
C11_Preservation ==
    /\ \A p \in SeedFiles :
        cwd[p] # cwd0[p] => (cwd0[p] = "absent" \/ ForceInEffect)
    /\ ~ForceInEffect =>
        \A p \in Paths : isfile(cwd0, p) => cwd[p] = cwd0[p]
    /\ \A p \in Readmes : exists(cwd0, p) => cwd[p] = cwd0[p]
    /\ cwd["models/d1/notes.txt"] = cwd0["models/d1/notes.txt"]
    /\ ~raw.copy => (cwd = cwd0 /\ wsOps = 0)

----------------------------------------------------------------------------
(* C12 *)

\* the leader has been through the copy at launch without an exception
CopyDone == isMaster /\ raw.copy /\ pc \in {"fit", "done"}

\* C12: a second pass over a working directory the first pass filled, with
\* force not in effect, leaves the contents as the first pass left them and
\* performs no write and no directory creation.
C12_SecondPassIdle ==
    (run = 2 /\ CopyDone /\ ~raw.force_copy) =>
        /\ cwd = cwd0
        /\ wsOps = 0

----------------------------------------------------------------------------
(* C13 *)

ModulePaths == {"modules", "modules/m1", "modules/m1/f.py", "modules/m1/sub",
                "modules/m1/README"}

ModelPaths == {"models", "models/d1", "models/d1/README",
               "models/d1/parameters.json"}

\* the module directory m1 and the model directory d1 with their content
ModuleDir == ModulePaths \ {"modules"}
ModelDir == ModelPaths \ {"models"}

\* every path of the set that a pass creates is there
Provisioned(ps) == \A p \in ps : exists(cwd, p)

\* C13: an I/O error on the seed content of one module or model directory
\* is reported, not raised: the other directories are provisioned all the
\* same and the run goes on to the Fitter.
C13_FailureIsolated ==
    (ioError /\ env.ioFail \in ModuleDir \cup ModelDir) =>
        /\ pc \in {"fit", "done"}
        /\ exitStatus # 1
        /\ env.ioFail \in ModuleDir => Provisioned(ModelPaths)
        /\ env.ioFail \in ModelDir => Provisioned(ModulePaths)

----------------------------------------------------------------------------
(* C14 *)

\* C14: a process for which is_master() is false issues no prompt (language
\* selection, upload warning, token, force copy), neither reads nor writes
\* the credential file, creates nothing in the working directory and prints
\* no banner; all of it is the leader's alone, so that no two processes
\* meet on a directory or on the credential file.
C14_LeaderOnly ==
    ~isMaster =>
        /\ langPrompts = 0
        /\ prompts = <<>>
        /\ tokenPrompts = 0
        /\ ~fileRead
        /\ fileWrites = <<>>
        /\ tokenFile = tokenFile0
        /\ cwd = cwd0
        /\ wsOps = 0
        /\ ~banner

----------------------------------------------------------------------------
(* C15 *)

\* main() has ended without a call of the Fitter
EndedUnfitted ==
    pc \in {"returned", "import_error", "raised", "exited"}

\* the ends the claim sets aside: the ValueError of the incompatible
\* selectors and the exit at a declined warning; the version print and the
\* failed googletrans import end main() before any configuration exists
SetAside ==
    \/ pc = "raised" /\ BothSelectors
    \/ pc = "exited"
    \/ pc \in {"returned", "import_error"}

\* C15: every run that neither fails with the configuration error nor exits
\* at a declined warning invokes the Fitter, once, with the resolved
\* configuration, and on the leader only after the token protocol and the
\* copy at launch have completed or been skipped.
C15_LaunchOrder ==
    /\ EndedUnfitted => SetAside
    /\ Len(fitterCalls) <= 1
    /\ pc = "done" =>
        /\ Len(fitterCalls) = 1
        /\ fitterCalls[1] = args
    /\ (fitterCalls # <<>> /\ isMaster) =>
        /\ ~IsNone(args.upload_token)
        /\ ~token_loop_continues(Val(args.upload_token))
             \/ ~get_token_from_user
        /\ raw.copy => (Provisioned(ModulePaths) /\ Provisioned(ModelPaths))

----------------------------------------------------------------------------
(* C16 *)

\* --set-upload-token was given a token of 64 characters
ExplicitToken ==
    /\ raw.set_upload_token.kind = "str"
    /\ Len(raw.set_upload_token.s) = 64

\* C16: with an explicit 64-character --set-upload-token and test mode off,
\* after the token protocol the credential file holds exactly that token
\* and that token is the upload_token handed to the Fitter, whatever the
\* upload flag and whatever the stored file held.
C16_ExplicitTokenWins ==
    (ExplicitToken /\ ~raw.test /\ PastToken) =>
        /\ tokenFile = Some(raw.set_upload_token.s)
        /\ args.upload_token = Some(Str(raw.set_upload_token.s))
        /\ fitterCalls # <<>> =>
            fitterCalls[1].upload_token = Some(Str(raw.set_upload_token.s))

====
